---------------------------- MODULE Spec2Model ----------------------------
(***************************************************************************)
(* Control-plane server of the ctrld DNS forwarding daemon                 *)
(* (cmd/cli control server: registerControlServerHandler).                 *)
(*                                                                         *)
(* The handlers are goroutines, one per accepted connection.  Each handler *)
(* is a small state machine over the daemon's shared state.  The groups   *)
(* of handlers modelled here share no state with each other, so each       *)
(* group has its own specification over the same variables:                *)
(*   SpecReload        /reload        with the daemon's reload loop        *)
(*   SpecDeactivation  /deactivation  with the remote PIN source           *)
(*   SpecLogs          /logs/send     with the clock and the log bundle    *)
(*   SpecLogsSeq       /logs/send     requests made one after another      *)
(*   SpecLogOutcomes   /logs/view and /logs/send, one request at a time    *)
(*   SpecSignals       /started and /iface with the daemon's two signals   *)
(*   SpecSignalsFair   the same, every handler and every timer scheduled   *)
(*   SpecServer        start and stop of the server on its socket path     *)
(*   SpecClients       /clients       with the client table and metrics    *)
(* served, lastSent and shipped are history variables: they record what    *)
(* the daemon and the handlers did and no handler reads them.              *)
(***************************************************************************)
EXTENDS Integers, Sequences, FiniteSets, TLC

(***************************************************************************)
(* HTTP status codes written by the handlers.                              *)
(***************************************************************************)
StatusOK == 200
StatusCreated == 201
StatusMovedPermanently == 301
StatusBadRequest == 400
StatusForbidden == 403
StatusRequestTimeout == 408
StatusPreconditionFailed == 412
StatusInternalServerError == 500
StatusServiceUnavailable == 503

(***************************************************************************)
(* Bounds of the model.                                                    *)
(***************************************************************************)
NumReloadReq == 1
NumDeactReq == 2
NumPins == 2
NumLogReq == 2
MaxTime == 4
NumStartedReq == 1
NumIfaceReq == 2
NumConns == 2
MaxClients == 2

ReloadReqs == 1..NumReloadReq
DeactReqs == 1..NumDeactReq
LogReqs == 1..NumLogReq
StartedReqs == 1..NumStartedReq
IfaceReqs == 1..NumIfaceReq
Conns == 1..NumConns

\* The bounded wait of the /reload handler, in seconds: time.After(5 * time.Second).
ReloadWaitSeconds == 5

\* The bounded wait of the /started handler, in seconds: time.After(10 * time.Second).
StartedWaitSeconds == 10

\* The deadline of the shutdown, in seconds: context.WithTimeout(..., time.Second*2).
StopWaitSeconds == 2

VARIABLES
    cfg,            \* p.cfg: [Listener: name -> [IP, Port], Service]
    mu,             \* p.mu: <<"free", 0>>, <<"req", r>> or <<"daemon", 0>>
    reloadSig,      \* reload signals delivered and not yet taken by the daemon
    daemon,         \* position of the daemon's reload loop
    reloadDoneCh,   \* p.reloadDoneCh: completion signals ready to be received
    rl,             \* the /reload handlers, one record per request
    served,         \* per waiting /reload request: what the daemon did since its signal
    cdUID,          \* the device identifier; "" when none is configured
    cdDeactivationPin,  \* the cached deactivation PIN (an atomic value)
    da,             \* the /deactivation handlers, one record per request
    now,            \* the clock, in units of time
    internalLogSent,    \* p.internalLogSent: the log-ship throttle timestamp
    lg,             \* the /logs/send handlers, one record per request
    lastSent,       \* when the remote endpoint was last contacted: <<>> or <<t>>
    shipped,        \* the last returned attempt that had transmitted: <<>> or <<[at, status]>>
    onStartedDone,  \* p.onStartedDone has been closed
    st,             \* the /started handlers, one record per request
    interactive,    \* service.Interactive()
    csSetDnsDone,   \* p.csSetDnsDone has been closed
    csSetDnsOk,     \* p.csSetDnsOk
    ifc,            \* the /iface handlers, one record per request
    sockPath,       \* what the name s.addr is in the filesystem
    otherListener,  \* another process has a live listener bound at s.addr
    cs,             \* the control server: position of start, listener, worker
    hd,             \* the handlers in flight, one per connection
    sd,             \* position of stop
    lv,             \* the /logs/view handler
    ciTable,        \* p.ciTable: the IP addresses of the clients in the table
    clientRec,      \* the client records of the table, by IP address
    metricsQueryStats,  \* p.metricsQueryStats (an atomic flag)
    lc              \* the /clients handler

reloadVars == <<cfg, mu, reloadSig, daemon, reloadDoneCh, rl, served>>

deactVars == <<cdUID, cdDeactivationPin, da>>

logVars == <<now, internalLogSent, lg, lastSent, shipped>>

startedVars == <<onStartedDone, st>>

ifaceVars == <<interactive, csSetDnsDone, csSetDnsOk, ifc>>

signalVars == <<startedVars, ifaceVars>>

serverVars == <<sockPath, otherListener, cs, hd, sd>>

viewVars == <<lv>>

clientVars == <<ciTable, clientRec, metricsQueryStats, lc>>

\* The state of the handler groups added to the first three.
otherVars == <<signalVars, serverVars, viewVars, clientVars>>

\* What the steps of one of these groups leave alone.
notSignalVars ==
    <<reloadVars, deactVars, logVars, serverVars, viewVars, clientVars>>

notServerVars ==
    <<reloadVars, deactVars, logVars, signalVars, viewVars, clientVars>>

notViewVars ==
    <<reloadVars, deactVars, logVars, signalVars, serverVars, clientVars>>

notClientVars ==
    <<reloadVars, deactVars, logVars, signalVars, serverVars, viewVars>>

vars == <<reloadVars, deactVars, logVars, otherVars>>

(***************************************************************************)
(* Configuration values.  A listener is {IP, Port}; p.cfg.Listener maps    *)
(* listener names to listeners; p.cfg.Service is a struct value.           *)
(***************************************************************************)
ListenerNames == {"0", "1"}

Listener(ip, port) == [IP |-> ip, Port |-> port]

\* The listener maps the daemon may hold: a base map of two listeners, the
\* base with listener "0" on another IP, the base with listener "0" on
\* another port, and the base without listener "1".
BaseListeners ==
    [k \in ListenerNames |->
        IF k = "0" THEN Listener("127.0.0.1", 53) ELSE Listener("127.0.0.1", 5354)]

ListenerMaps ==
    { BaseListeners,
      [BaseListeners EXCEPT !["0"].IP = "0.0.0.0"],
      [BaseListeners EXCEPT !["0"].Port = 5353],
      [k \in {"0"} |-> BaseListeners[k]] }

\* p.cfg.Service: a struct value, compared as a whole.
ServiceConfigs == [LogLevel : {"info", "debug"}]

Configs == [Listener : ListenerMaps, Service : ServiceConfigs]

NoListeners == [k \in {} |-> [IP |-> "", Port |-> 0]]
NoService == [LogLevel |-> ""]

MuFree == <<"free", 0>>
MuReq(r) == <<"req", r>>
MuDaemon == <<"daemon", 0>>

\* Capacity of p.reloadDoneCh.
reloadDoneChCap == 1

\* Reload signals the daemon has not taken yet are coalesced beyond this many.
reloadSigCap == 1

IdleReload ==
    [pc |-> "idle", listeners |-> NoListeners, oldSvc |-> NoService,
     waited |-> 0, status |-> 0, ret |-> ""]

\* A comparison of the live service configuration with an alias of itself
\* instead of the value captured before the reload.
DeepEqualAliased(a, b) == b = b

(***************************************************************************)
(* reflect.DeepEqual on two ServiceConfig values: structural equality.     *)
(***************************************************************************)
DeepEqual(a, b) == a = b

(***************************************************************************)
(* Lines 140-146: the loop over the LIVE listener map.  A live listener    *)
(* with no snapshot entry, or whose IP or port differs, ends the handler   *)
(* with 201.                                                               *)
(***************************************************************************)
ListenerChanged(listeners, live) ==
    \E k \in DOMAIN live :
        \/ k \notin DOMAIN listeners
        \/ listeners[k].IP # live[k].IP
        \/ listeners[k].Port # live[k].Port

\* Lines 137-155: the status the verify step writes.
VerifyStatus(listeners, oldSvc, c) ==
    IF ListenerChanged(listeners, c.Listener) THEN StatusCreated
    ELSE IF ~DeepEqual(oldSvc, c.Service) THEN StatusCreated
    ELSE StatusOK

\* Lines 137-155: the return statement the verify step leaves by.
VerifyReturn(listeners, oldSvc, c) ==
    IF ListenerChanged(listeners, c.Listener) THEN "listener changed"
    ELSE IF ~DeepEqual(oldSvc, c.Service) THEN "service changed"
    ELSE "reload done"

(***************************************************************************)
(* The /reload handler, lines 111-156.                                     *)
(***************************************************************************)
\* Lines 114-119: a new map holding the IP and the port of every listener.
CopyListeners(live) ==
    [k \in DOMAIN live |-> [IP |-> live[k].IP, Port |-> live[k].Port]]

\* A request arrives: the handler goroutine starts.
ReloadBegin(r) ==
    /\ rl[r].pc = "idle"
    /\ rl' = [rl EXCEPT ![r].pc = "lock1"]
    /\ UNCHANGED <<deactVars, logVars, otherVars, served, cfg, mu, reloadSig, daemon, reloadDoneCh>>

\* Line 113: p.mu.Lock().
ReloadLockSnapshot(r) ==
    /\ rl[r].pc = "lock1"
    /\ mu = MuFree
    /\ mu' = MuReq(r)
    /\ rl' = [rl EXCEPT ![r].pc = "snapshot"]
    /\ UNCHANGED <<deactVars, logVars, otherVars, served, cfg, reloadSig, daemon, reloadDoneCh>>

\* The copy of the listeners followed by an unlock, before the service
\* configuration has been read.
ReloadCopyListenersUnlock(r) ==
    /\ rl[r].pc = "snapshot"
    /\ mu = MuReq(r)
    /\ rl' = [rl EXCEPT ![r].pc = "service",
                        ![r].listeners = CopyListeners(cfg.Listener)]
    /\ mu' = MuFree
    /\ UNCHANGED <<deactVars, logVars, otherVars, served, cfg, reloadSig, daemon, reloadDoneCh>>

\* Lines 112-119: under the lock, copy every listener's IP and port.
ReloadCopyListeners(r) ==
    /\ rl[r].pc = "snapshot"
    /\ mu = MuReq(r)
    /\ rl' = [rl EXCEPT ![r].pc = "service",
                        ![r].listeners = CopyListeners(cfg.Listener)]
    /\ UNCHANGED <<deactVars, logVars, otherVars, served, cfg, mu, reloadSig, daemon, reloadDoneCh>>

\* Lines 120-121: oldSvc := p.cfg.Service; p.mu.Unlock().
ReloadSnapshot(r) ==
    /\ rl[r].pc = "service"
    /\ mu = MuReq(r)
    /\ rl' = [rl EXCEPT ![r].pc = "signal", ![r].oldSvc = cfg.Service]
    /\ mu' = MuFree
    /\ UNCHANGED <<deactVars, logVars, otherVars, served, cfg, reloadSig, daemon, reloadDoneCh>>

\* The signal step with the return after the error response left out.
ReloadSignalNoReturn(r) ==
    /\ rl[r].pc = "signal"
    /\ \E delivered \in BOOLEAN :
        IF delivered
        THEN /\ reloadSig' = IF reloadSig < reloadSigCap
                              THEN reloadSig + 1 ELSE reloadSig
             /\ rl' = [rl EXCEPT ![r].pc = "wait", ![r].waited = 0]
        ELSE /\ reloadSig' = reloadSig
             /\ rl' = [rl EXCEPT ![r].pc = "wait", ![r].waited = 0,
                                 ![r].status = StatusInternalServerError,
                                 ![r].ret = "signal error"]
    /\ UNCHANGED <<deactVars, logVars, otherVars, served, cfg, mu, daemon, reloadDoneCh>>

\* Lines 122-126: p.sendReloadSignal(); on error answer 500 and return.
ReloadSignal(r) ==
    /\ rl[r].pc = "signal"
    /\ \E delivered \in BOOLEAN :
        IF delivered
        THEN /\ reloadSig' = IF reloadSig < reloadSigCap
                              THEN reloadSig + 1 ELSE reloadSig
             /\ rl' = [rl EXCEPT ![r].pc = "wait", ![r].waited = 0]
        ELSE /\ reloadSig' = reloadSig
             /\ rl' = [rl EXCEPT ![r].pc = "done",
                                 ![r].status = StatusInternalServerError,
                                 ![r].ret = "signal error",
                                 ![r].listeners = NoListeners,
                                 ![r].oldSvc = NoService]
    /\ UNCHANGED <<deactVars, logVars, otherVars, served, cfg, mu, daemon, reloadDoneCh>>

\* Line 128: case <-p.reloadDoneCh.
ReloadWaitDone(r) ==
    /\ rl[r].pc = "wait"
    /\ reloadDoneCh > 0
    /\ reloadDoneCh' = reloadDoneCh - 1
    /\ rl' = [rl EXCEPT ![r].pc = "lock2", ![r].waited = 0]
    /\ served' = [served EXCEPT ![r] = "none"]
    /\ UNCHANGED <<deactVars, logVars, otherVars, cfg, mu, reloadSig, daemon>>

\* The timeout branch with a timer that is ready at once.
ReloadWaitTimeoutEarly(r) ==
    /\ rl[r].pc = "wait"
    /\ rl' = [rl EXCEPT ![r].pc = "done",
                        ![r].status = StatusInternalServerError,
                        ![r].ret = "timeout waiting for ctrld reload",
                        ![r].listeners = NoListeners,
                        ![r].oldSvc = NoService]
    /\ served' = [served EXCEPT ![r] = "none"]
    /\ UNCHANGED <<deactVars, logVars, otherVars, cfg, mu, reloadSig, daemon, reloadDoneCh>>

\* Lines 129-131: case <-time.After(5 * time.Second): answer 500 and return.
ReloadWaitTimeout(r) ==
    /\ rl[r].pc = "wait"
    /\ rl[r].waited >= ReloadWaitSeconds
    /\ rl' = [rl EXCEPT ![r].pc = "done",
                        ![r].status = StatusInternalServerError,
                        ![r].ret = "timeout waiting for ctrld reload",
                        ![r].listeners = NoListeners,
                        ![r].oldSvc = NoService]
    /\ served' = [served EXCEPT ![r] = "none"]
    /\ UNCHANGED <<deactVars, logVars, otherVars, cfg, mu, reloadSig, daemon, reloadDoneCh>>

\* Lines 134-135: p.mu.Lock(); defer p.mu.Unlock().
ReloadLockVerify(r) ==
    /\ rl[r].pc = "lock2"
    /\ mu = MuFree
    /\ mu' = MuReq(r)
    /\ rl' = [rl EXCEPT ![r].pc = "verify"]
    /\ UNCHANGED <<deactVars, logVars, otherVars, served, cfg, reloadSig, daemon, reloadDoneCh>>

\* Lines 137-155: compare, write the status, return (the deferred unlock runs).
ReloadVerify(r) ==
    /\ rl[r].pc = "verify"
    /\ mu = MuReq(r)
    /\ rl' = [rl EXCEPT ![r].pc = "done",
                        ![r].status =
                            VerifyStatus(rl[r].listeners, rl[r].oldSvc, cfg),
                        ![r].ret =
                            VerifyReturn(rl[r].listeners, rl[r].oldSvc, cfg)]
    /\ mu' = MuFree
    /\ UNCHANGED <<deactVars, logVars, otherVars, served, cfg, reloadSig, daemon, reloadDoneCh>>

\* The response has been delivered; the connection serves the next request.
ReloadEnd(r) ==
    /\ rl[r].pc = "done"
    /\ rl' = [rl EXCEPT ![r] = IdleReload]
    /\ UNCHANGED <<deactVars, logVars, otherVars, served, cfg, mu, reloadSig, daemon, reloadDoneCh>>

\* One second passes for every handler blocked in the select of lines 127-132.
\* A timer that has expired fires before more time passes.
ReloadTick ==
    /\ \E r \in ReloadReqs : rl[r].pc = "wait"
    /\ \A r \in ReloadReqs : rl[r].pc = "wait" => rl[r].waited < ReloadWaitSeconds
    /\ rl' = [r \in ReloadReqs |->
                IF rl[r].pc = "wait"
                THEN [rl[r] EXCEPT !.waited = @ + 1]
                ELSE rl[r]]
    /\ UNCHANGED <<deactVars, logVars, otherVars, served, cfg, mu, reloadSig, daemon, reloadDoneCh>>

(***************************************************************************)
(* The daemon's reload loop (Daemon State Provider).                       *)
(***************************************************************************)
\* The daemon takes a delivered reload signal and starts reloading.
TakeSignal ==
    /\ daemon = "idle"
    /\ reloadSig > 0
    /\ reloadSig' = reloadSig - 1
    /\ daemon' = "reloading"
    /\ UNCHANGED <<deactVars, logVars, otherVars, cfg, mu, reloadDoneCh, rl>>

DaemonTakeSignal == TakeSignal /\ UNCHANGED served

\* The same step, recorded: the reload that starts now started after the
\* signal of every request that is waiting.
DaemonTakeSignalRecorded ==
    /\ TakeSignal
    /\ served' = [r \in ReloadReqs |->
                    IF rl[r].pc = "wait" /\ served[r] = "none"
                    THEN "started" ELSE served[r]]

\* The daemon takes the shared-state lock to install the new configuration.
DaemonLock ==
    /\ daemon = "reloading"
    /\ mu = MuFree
    /\ mu' = MuDaemon
    /\ daemon' = "install"
    /\ UNCHANGED <<deactVars, logVars, otherVars, served, cfg, reloadSig, reloadDoneCh, rl>>

\* Under the lock the daemon replaces the configuration by the one it read.
DaemonInstall ==
    /\ daemon = "install"
    /\ mu = MuDaemon
    /\ \E c \in Configs : cfg' = c
    /\ mu' = MuFree
    /\ daemon' = "installed"
    /\ UNCHANGED <<deactVars, logVars, otherVars, served, reloadSig, reloadDoneCh, rl>>

\* The daemon signals completion; a signal nobody can take is dropped.
SignalDone ==
    /\ daemon = "installed"
    /\ reloadDoneCh' = IF reloadDoneCh < reloadDoneChCap
                       THEN reloadDoneCh + 1 ELSE reloadDoneCh
    /\ daemon' = "idle"
    /\ UNCHANGED <<deactVars, logVars, otherVars, cfg, mu, reloadSig, rl>>

DaemonSignalDone == SignalDone /\ UNCHANGED served

\* The same step, recorded: the reload that completes now is the one that
\* started after the signal of the requests marked "started".
DaemonSignalDoneRecorded ==
    /\ SignalDone
    /\ served' = [r \in ReloadReqs |->
                    IF served[r] = "started" THEN "completed" ELSE served[r]]

(***************************************************************************)
(* The /deactivation handler, lines 157-197.                               *)
(***************************************************************************)
\* The "unset" sentinel of the cached PIN.
defaultDeactivationPin == -1

\* The PINs an operator may configure or submit.
Pins == 1..NumPins

\* A request body: undecodable, or a deactivationRequest carrying a Pin.
Malformed == [ok |-> FALSE, Pin |-> 0]
Bodies == {Malformed} \cup [ok : {TRUE}, Pin : Pins \cup {defaultDeactivationPin}]

\* controld.FetchResolverConfig: no config (rc == nil), a config with no
\* PIN (rc.DeactivationPin == nil), or a config with a PIN.
NoFetch == [rc |-> FALSE, hasPin |-> FALSE, pin |-> 0]
FetchResults ==
    {NoFetch}
        \cup {[rc |-> TRUE, hasPin |-> FALSE, pin |-> 0]}
        \cup [rc : {TRUE}, hasPin : {TRUE}, pin : Pins]

IdleDeact ==
    [pc |-> "idle", status |-> 0, rc |-> NoFetch, checked |-> 0,
     body |-> Malformed]

\* The state after construction, with no request in flight.
DeactStart(uid, pin) ==
    /\ cdUID = uid
    /\ cdDeactivationPin = pin
    /\ da = [r \in DeactReqs |-> IdleDeact]

\* deactivationPinNotSet(): the cached PIN is the sentinel.
deactivationPinNotSet == cdDeactivationPin = defaultDeactivationPin

\* Lines 188-195: the switch on req.Pin against the cached PIN.
CompareCode(reqPin, cached) ==
    IF reqPin = cached THEN StatusOK
    ELSE IF reqPin = defaultDeactivationPin THEN StatusBadRequest
    ELSE StatusForbidden

\* A refresh that clears the cached PIN when the fetch fails.
PinAfterFetchClearing(res, cached) ==
    IF res.rc /\ res.hasPin THEN res.pin ELSE defaultDeactivationPin

\* Lines 165-173: what the refresh leaves in the cache for a fetch result.
PinAfterFetch(res, cached) ==
    IF res.rc
    THEN IF res.hasPin THEN res.pin ELSE defaultDeactivationPin
    ELSE cached

\* A request arrives.  Lines 159-162: without a device identifier the
\* handler answers 200 at once.
DeactBegin(r) ==
    /\ da[r].pc = "idle"
    /\ IF cdUID = ""
       THEN da' = [da EXCEPT ![r].pc = "done", ![r].status = StatusOK]
       ELSE da' = [da EXCEPT ![r].pc = "fetch"]
    /\ UNCHANGED <<reloadVars, logVars, otherVars, cdUID, cdDeactivationPin>>

\* Lines 165-173: re-fetch the PIN; store it, or the sentinel when the
\* remote source has none; on failure log and go on.  rc is the result.
DeactFetch(r) ==
    /\ da[r].pc = "fetch"
    /\ \E res \in FetchResults :
        /\ cdDeactivationPin' = PinAfterFetch(res, cdDeactivationPin)
        /\ da' = [da EXCEPT ![r].pc = "notset", ![r].rc = res]
    /\ UNCHANGED <<reloadVars, logVars, otherVars, cdUID>>

\* Lines 176-179: load the cached PIN; if it is the sentinel, answer 200.
DeactPinNotSet(r) ==
    /\ da[r].pc = "notset"
    /\ IF deactivationPinNotSet
       THEN da' = [da EXCEPT ![r].pc = "done", ![r].status = StatusOK,
                             ![r].rc = NoFetch]
       ELSE da' = [da EXCEPT ![r].pc = "decode", ![r].rc = NoFetch,
                             ![r].checked = cdDeactivationPin]
    /\ UNCHANGED <<reloadVars, logVars, otherVars, cdUID, cdDeactivationPin>>

\* Lines 181-186: read and decode the body; an undecodable body is
\* answered 412.
DeactDecode(r) ==
    /\ da[r].pc = "decode"
    /\ \E b \in Bodies :
        IF ~b.ok
        THEN da' = [da EXCEPT ![r].pc = "done",
                              ![r].status = StatusPreconditionFailed]
        ELSE da' = [da EXCEPT ![r].pc = "compare", ![r].body = b]
    /\ UNCHANGED <<reloadVars, logVars, otherVars, cdUID, cdDeactivationPin>>

\* Lines 188-196: load the cached PIN again and compare.
DeactCompare(r) ==
    /\ da[r].pc = "compare"
    /\ da' = [da EXCEPT ![r].pc = "done",
                        ![r].status =
                            CompareCode(da[r].body.Pin, cdDeactivationPin)]
    /\ UNCHANGED <<reloadVars, logVars, otherVars, cdUID, cdDeactivationPin>>

\* The response has been delivered; the connection serves the next request.
DeactEnd(r) ==
    /\ da[r].pc = "done"
    /\ da' = [da EXCEPT ![r] = IdleDeact]
    /\ UNCHANGED <<reloadVars, logVars, otherVars, cdUID, cdDeactivationPin>>

(***************************************************************************)
(* The /logs/send handler, lines 232-265.                                  *)
(***************************************************************************)
\* The throttle interval, in units of time.
logSentInterval == 2

\* The zero time.Time, the value of p.internalLogSent before any attempt:
\* further in the past than any interval.
ZeroTime == 0 - logSentInterval

\* The content of the log bundle: empty, or some bytes.
LogData == {<<>>, <<108, 111>>}

\* What p.logContent() returns: the data and whether there is an error.
LogReads == [data : LogData, err : BOOLEAN]

NoRead == [data |-> <<>>, err |-> FALSE]

\* The logSentResponse a request has written, if any.
NoResp == [Size |-> 0, Error |-> ""]

IdleLogs == [pc |-> "idle", status |-> 0, rd |-> NoRead, resp |-> NoResp]

\* The state after construction, with no request in flight.
LogsStart ==
    /\ now = 0
    /\ internalLogSent = ZeroTime
    /\ lg = [r \in LogReqs |-> IdleLogs]
    /\ lastSent = <<>>
    /\ shipped = <<>>

\* Another handler is in the middle of its unsynchronised write of
\* p.internalLogSent (line 264).
WriteInProgress(r) == \E q \in LogReqs \ {r} : lg[q].pc = "stamping"

\* A throttle check that still throttles when exactly the interval has passed.
ThrottledReadsInclusive(r) ==
    IF WriteInProgress(r) THEN BOOLEAN
    ELSE {now - internalLogSent <= logSentInterval}

\* Line 233: time.Since(p.internalLogSent) < logSentInterval.  The field is
\* read without synchronisation: a read that races with a write may see
\* anything.
ThrottledReads(r) ==
    IF WriteInProgress(r) THEN BOOLEAN
    ELSE {now - internalLogSent < logSentInterval}

\* A request arrives.  Lines 233-236: inside the interval answer 503.
LogsThrottle(r) ==
    /\ lg[r].pc = "idle"
    /\ \E throttled \in ThrottledReads(r) :
        IF throttled
        THEN lg' = [lg EXCEPT ![r].pc = "done",
                              ![r].status = StatusServiceUnavailable]
        ELSE lg' = [lg EXCEPT ![r].pc = "read"]
    /\ UNCHANGED <<reloadVars, deactVars, otherVars, now, internalLogSent, lastSent, shipped>>

\* A handler that looks at the length of the data before the error.
ReadStatusEmptyFirst(rd) ==
    IF Len(rd.data) = 0 THEN StatusMovedPermanently
    ELSE IF rd.err THEN StatusBadRequest
    ELSE 0

\* Lines 218-226 and 237-245: the status a handler writes for what
\* p.logContent() returned, or 0 when it goes on: the error is looked at
\* first, then the length of the data.
ReadStatus(rd) ==
    IF rd.err THEN StatusBadRequest
    ELSE IF Len(rd.data) = 0 THEN StatusMovedPermanently
    ELSE 0

\* Lines 237-245: p.logContent(); a read error is answered 400, empty
\* content 301.
LogsRead(r) ==
    /\ lg[r].pc = "read"
    /\ \E rd \in LogReads :
        lg' = [lg EXCEPT ![r].pc = IF ReadStatus(rd) = 0 THEN "send" ELSE "done",
                         ![r].status = ReadStatus(rd),
                         ![r].rd = rd]
    /\ UNCHANGED <<reloadVars, deactVars, otherVars, now, internalLogSent, lastSent, shipped>>

\* Lines 246-263: controld.SendLogs; 500 when it fails, 200 otherwise; the
\* response body is encoded.
LogsSend(r) ==
    /\ lg[r].pc = "send"
    /\ \E sent \in BOOLEAN :
        lg' = [lg EXCEPT ![r].pc = "stamp",
                         ![r].status = IF sent THEN StatusOK
                                       ELSE StatusInternalServerError,
                         ![r].resp = [Size |-> Len(lg[r].rd.data),
                                      Error |-> IF sent THEN ""
                                                ELSE "send error"]]
    /\ lastSent' = <<now>>
    /\ UNCHANGED <<reloadVars, deactVars, otherVars, now, internalLogSent, shipped>>

\* Line 264: time.Now() is taken and the write of p.internalLogSent begins.
LogsStampBegin(r) ==
    /\ lg[r].pc = "stamp"
    /\ lg' = [lg EXCEPT ![r].pc = "stamping"]
    /\ UNCHANGED <<reloadVars, deactVars, otherVars, now, internalLogSent, lastSent, shipped>>

\* A write of the timestamp placed in the branch of the successful
\* transmission only.
LogsStampEndOnSuccess(r) ==
    /\ lg[r].pc = "stamping"
    /\ internalLogSent' = IF lg[r].status = StatusOK THEN now ELSE internalLogSent
    /\ shipped' = <<[at |-> now, status |-> lg[r].status]>>
    /\ lg' = [lg EXCEPT ![r].pc = "done"]
    /\ UNCHANGED <<reloadVars, deactVars, otherVars, now, lastSent>>

\* Line 264: the write of p.internalLogSent ends; the handler returns.
LogsStampEnd(r) ==
    /\ lg[r].pc = "stamping"
    /\ internalLogSent' = now
    /\ shipped' = <<[at |-> now, status |-> lg[r].status]>>
    /\ lg' = [lg EXCEPT ![r].pc = "done"]
    /\ UNCHANGED <<reloadVars, deactVars, otherVars, now, lastSent>>

\* The response has been delivered; the connection serves the next request.
LogsEnd(r) ==
    /\ lg[r].pc = "done"
    /\ lg' = [lg EXCEPT ![r] = IdleLogs]
    /\ UNCHANGED <<reloadVars, deactVars, otherVars, now, internalLogSent, lastSent, shipped>>

\* One unit of time passes.  The write of line 264 takes no time.
LogsTick ==
    /\ now < MaxTime
    /\ \A r \in LogReqs : lg[r].pc # "stamping"
    /\ now' = now + 1
    /\ UNCHANGED <<reloadVars, deactVars, otherVars, internalLogSent, lg, lastSent, shipped>>

(***************************************************************************)
(* The /started handler, lines 103-110.  The select blocks on the closing  *)
(* of p.onStartedDone and on a 10 second timer.  A blocked select is       *)
(* resolved by the first of its events: closing the channel makes every    *)
(* handler blocked on it ready with the receive case chosen.               *)
(***************************************************************************)
IdleStarted == [pc |-> "idle", waited |-> 0, status |-> 0]

\* The state after construction: the daemon has not started, no request.
StartedStart ==
    /\ onStartedDone = FALSE
    /\ st = [r \in StartedReqs |-> IdleStarted]

\* A request arrives and enters the select of line 104: the receive case is
\* ready if the channel is closed, otherwise the handler blocks.
StartedBegin(r) ==
    /\ st[r].pc = "idle"
    /\ st' = [st EXCEPT ![r].pc = IF onStartedDone THEN "ready" ELSE "wait"]
    /\ UNCHANGED <<notSignalVars, onStartedDone, ifaceVars>>

\* Lines 105-106: case <-p.onStartedDone: answer 200.
StartedOK(r) ==
    /\ st[r].pc = "ready"
    /\ st' = [st EXCEPT ![r].pc = "done", ![r].status = StatusOK]
    /\ UNCHANGED <<notSignalVars, onStartedDone, ifaceVars>>

\* The timeout case with a timer that is ready at once.
StartedTimeoutEarly(r) ==
    /\ st[r].pc = "wait"
    /\ st' = [st EXCEPT ![r].pc = "done", ![r].status = StatusRequestTimeout]
    /\ UNCHANGED <<notSignalVars, onStartedDone, ifaceVars>>

\* Lines 107-108: case <-time.After(10 * time.Second): answer 408.
StartedTimeout(r) ==
    /\ st[r].pc = "wait"
    /\ st[r].waited >= StartedWaitSeconds
    /\ st' = [st EXCEPT ![r].pc = "done", ![r].status = StatusRequestTimeout]
    /\ UNCHANGED <<notSignalVars, onStartedDone, ifaceVars>>

\* The response has been delivered; the connection serves the next request.
StartedEnd(r) ==
    /\ st[r].pc = "done"
    /\ st' = [st EXCEPT ![r] = IdleStarted]
    /\ UNCHANGED <<notSignalVars, onStartedDone, ifaceVars>>

\* One second passes for every handler blocked in the select of lines
\* 104-109.  A timer that has expired fires before more time passes.
StartedTick ==
    /\ \E r \in StartedReqs : st[r].pc = "wait"
    /\ \A r \in StartedReqs : st[r].pc = "wait" => st[r].waited < StartedWaitSeconds
    /\ st' = [r \in StartedReqs |->
                IF st[r].pc = "wait"
                THEN [st[r] EXCEPT !.waited = @ + 1]
                ELSE st[r]]
    /\ UNCHANGED <<notSignalVars, onStartedDone, ifaceVars>>

\* The daemon completes its startup and closes p.onStartedDone: every
\* handler blocked on it becomes ready.
DaemonStarted ==
    /\ ~onStartedDone
    /\ onStartedDone' = TRUE
    /\ st' = [r \in StartedReqs |->
                IF st[r].pc = "wait"
                THEN [st[r] EXCEPT !.pc = "ready"]
                ELSE st[r]]
    /\ UNCHANGED <<notSignalVars, ifaceVars>>

(***************************************************************************)
(* The /iface handler, lines 206-216.                                      *)
(***************************************************************************)
\* The global iface: the name of the interface the daemon bound DNS on.
iface == "eth0"

IdleIface == [pc |-> "idle", status |-> 0, body |-> ""]

\* The state after construction: DNS is not set yet, no request.
IfaceStart(i) ==
    /\ interactive = i
    /\ csSetDnsDone = FALSE
    /\ csSetDnsOk = FALSE
    /\ ifc = [r \in IfaceReqs |-> IdleIface]

\* A request arrives.  Line 208: in an interactive session the handler
\* goes to line 215 and answers 400; as a service it blocks on line 209.
IfaceBegin(r) ==
    /\ ifc[r].pc = "idle"
    /\ IF interactive
       THEN ifc' = [ifc EXCEPT ![r].pc = "done", ![r].status = StatusBadRequest]
       ELSE ifc' = [ifc EXCEPT ![r].pc = "wait"]
    /\ UNCHANGED <<notSignalVars, startedVars,
                   interactive, csSetDnsDone, csSetDnsOk>>

\* The handler reading p.csSetDnsOk without the receive of line 209.
IfaceRecvNoWait(r) ==
    /\ ifc[r].pc = "wait"
    /\ IF csSetDnsOk
       THEN ifc' = [ifc EXCEPT ![r].pc = "done", ![r].status = StatusOK,
                               ![r].body = iface]
       ELSE ifc' = [ifc EXCEPT ![r].pc = "done", ![r].status = StatusBadRequest]
    /\ UNCHANGED <<notSignalVars, startedVars,
                   interactive, csSetDnsDone, csSetDnsOk>>

\* Lines 209-215: <-p.csSetDnsDone returns once the channel is closed; with
\* p.csSetDnsOk the handler writes iface (an implicit 200), otherwise 400.
IfaceRecv(r) ==
    /\ ifc[r].pc = "wait"
    /\ csSetDnsDone
    /\ IF csSetDnsOk
       THEN ifc' = [ifc EXCEPT ![r].pc = "done", ![r].status = StatusOK,
                               ![r].body = iface]
       ELSE ifc' = [ifc EXCEPT ![r].pc = "done", ![r].status = StatusBadRequest]
    /\ UNCHANGED <<notSignalVars, startedVars,
                   interactive, csSetDnsDone, csSetDnsOk>>

\* The response has been delivered; the connection serves the next request.
IfaceEnd(r) ==
    /\ ifc[r].pc = "done"
    /\ ifc' = [ifc EXCEPT ![r] = IdleIface]
    /\ UNCHANGED <<notSignalVars, startedVars,
                   interactive, csSetDnsDone, csSetDnsOk>>

\* The daemon, running as a service, has tried to set DNS on the interface:
\* it records the outcome and closes p.csSetDnsDone, once.
DaemonSetDns ==
    /\ ~interactive
    /\ ~csSetDnsDone
    /\ \E ok \in BOOLEAN : csSetDnsOk' = ok
    /\ csSetDnsDone' = TRUE
    /\ UNCHANGED <<notSignalVars, startedVars, interactive, ifc>>

(***************************************************************************)
(* The control server, lines 33-67: start binds a unix socket at s.addr    *)
(* and serves it; stop shuts the server down.  The name s.addr lives in    *)
(* the filesystem, which other processes use too.                          *)
(***************************************************************************)
IdleServer == [pc |-> "new", err |-> "", listening |-> FALSE, serving |-> FALSE]

IdleStop == [pc |-> "idle", waited |-> 0, ret |-> ""]

\* The state after newControlServer: nothing bound, no connection.  The
\* name is free, or a file left behind by a process that is gone, or the
\* socket of another process's live listener.
ServerStart(path, other) ==
    /\ sockPath = path
    /\ otherListener = other
    /\ cs = IdleServer
    /\ hd = [c \in Conns |-> "none"]
    /\ sd = IdleStop

\* Line 50: _ = os.Remove(s.addr): whatever has the name is unlinked; a
\* listener bound under that name stays alive without it.
StartRemove ==
    /\ cs.pc = "new"
    /\ sockPath' = "absent"
    /\ cs' = [cs EXCEPT !.pc = "listen"]
    /\ UNCHANGED <<notServerVars, otherListener, hd, sd>>

\* Lines 51-57: net.Listen("unix", s.addr).  bind fails with EADDRINUSE when
\* the name exists, and may fail for another reason; on failure start
\* returns the error.  On success the listener unlinks the name on close.
StartListen ==
    /\ cs.pc = "listen"
    /\ IF sockPath # "absent"
       THEN /\ cs' = [cs EXCEPT !.pc = "failed", !.err = "address already in use"]
            /\ sockPath' = sockPath
       ELSE \E bound \in BOOLEAN :
              IF bound
              THEN /\ cs' = [cs EXCEPT !.pc = "serve", !.listening = TRUE]
                   /\ sockPath' = "own"
              ELSE /\ cs' = [cs EXCEPT !.pc = "failed", !.err = "permission denied"]
                   /\ sockPath' = sockPath
    /\ UNCHANGED <<notServerVars, otherListener, hd, sd>>

\* Lines 58-59: go s.server.Serve(unixListener); return nil.
StartServe ==
    /\ cs.pc = "serve"
    /\ cs' = [cs EXCEPT !.pc = "started", !.serving = TRUE]
    /\ UNCHANGED <<notServerVars, sockPath, otherListener, hd, sd>>

\* The serving worker accepts a connection and a handler runs on it.
ConnServe(c) ==
    /\ cs.serving
    /\ cs.listening
    /\ hd[c] = "none"
    /\ hd' = [hd EXCEPT ![c] = "active"]
    /\ UNCHANGED <<notServerVars, sockPath, otherListener, cs, sd>>

\* A handler returns.  Nothing obliges it to: it may be blocked on a signal
\* of the daemon.
HandlerReturn(c) ==
    /\ hd[c] = "active"
    /\ hd' = [hd EXCEPT ![c] = "none"]
    /\ UNCHANGED <<notServerVars, sockPath, otherListener, cs, sd>>

\* Line 63: _ = os.Remove(s.addr).
StopRemove ==
    /\ cs.pc = "started"
    /\ sd.pc = "idle"
    /\ sockPath' = "absent"
    /\ sd' = [sd EXCEPT !.pc = "shutdown"]
    /\ UNCHANGED <<notServerVars, otherListener, cs, hd>>

\* Lines 64-66: s.server.Shutdown(ctx) with a 2 second deadline: Shutdown
\* closes the listener, so that no connection is accepted any more, and
\* then waits for the connections to become idle.
StopShutdown ==
    /\ sd.pc = "shutdown"
    /\ cs' = [cs EXCEPT !.listening = FALSE]
    /\ sockPath' = IF sockPath = "own" THEN "absent" ELSE sockPath
    /\ sd' = [sd EXCEPT !.pc = "drain", !.waited = 0]
    /\ UNCHANGED <<notServerVars, otherListener, hd>>

\* Shutdown finds every connection idle and returns nil.
StopDrained ==
    /\ sd.pc = "drain"
    /\ \A c \in Conns : hd[c] # "active"
    /\ sd' = [sd EXCEPT !.pc = "stopped", !.ret = "nil"]
    /\ UNCHANGED <<notServerVars, sockPath, otherListener, cs, hd>>

\* The context expires: Shutdown returns the context's error and leaves the
\* connections that are still active as they are.
StopDeadline ==
    /\ sd.pc = "drain"
    /\ sd.waited >= StopWaitSeconds
    /\ sd' = [sd EXCEPT !.pc = "stopped", !.ret = "context deadline exceeded"]
    /\ UNCHANGED <<notServerVars, sockPath, otherListener, cs, hd>>

\* One second passes while Shutdown waits.
StopTick ==
    /\ sd.pc = "drain"
    /\ sd.waited < StopWaitSeconds
    /\ sd' = [sd EXCEPT !.waited = @ + 1]
    /\ UNCHANGED <<notServerVars, sockPath, otherListener, cs, hd>>

\* Another process binds a listener at the name, which must be free.
OtherBind ==
    /\ ~otherListener
    /\ sockPath = "absent"
    /\ otherListener' = TRUE
    /\ sockPath' = "other"
    /\ UNCHANGED <<notServerVars, cs, hd, sd>>

\* The other process goes away: its listener is gone; its socket file, if
\* it still has the name, is unlinked or, after a crash, left behind.
OtherExit ==
    /\ otherListener
    /\ otherListener' = FALSE
    /\ \E crashed \in BOOLEAN :
        sockPath' = IF sockPath # "other" THEN sockPath
                    ELSE IF crashed THEN "stale" ELSE "absent"
    /\ UNCHANGED <<notServerVars, cs, hd, sd>>

(***************************************************************************)
(* The /logs/view handler, lines 217-231.                                  *)
(***************************************************************************)
IdleView == [pc |-> "idle", status |-> 0, rd |-> NoRead, body |-> <<>>]

\* The state after construction, with no request in flight.
ViewStart == lv = IdleView

\* Lines 218-230: p.logContent(); a read error is answered 400, empty
\* content 301; otherwise the content is encoded into the response, which
\* is a 200, or a 500 when the encoder fails.
LogsView ==
    /\ lv.pc = "idle"
    /\ \E rd \in LogReads, encoded \in BOOLEAN :
        lv' = [pc |-> "done",
               status |-> IF ReadStatus(rd) # 0 THEN ReadStatus(rd)
                          ELSE IF encoded THEN StatusOK
                          ELSE StatusInternalServerError,
               rd |-> rd,
               body |-> IF ReadStatus(rd) = 0 /\ encoded THEN rd.data ELSE <<>>]
    /\ UNCHANGED notViewVars

\* The response has been delivered; the connection serves the next request.
LogsViewEnd ==
    /\ lv.pc = "done"
    /\ lv' = IdleView
    /\ UNCHANGED notViewVars

(***************************************************************************)
(* The /clients handler, lines 74-102.  p.ciTable.ListClients() returns    *)
(* pointers to client records, in any order; the handler sorts the slice   *)
(* and writes into the records it points to.  A record may be the one an   *)
(* earlier request wrote into, or one the table has made anew.             *)
(***************************************************************************)
\* netip.Addr values, as <<bit length, address>>: two IPv4 and two IPv6.
Addrs == {<<32, 1>>, <<32, 2>>, <<128, 1>>, <<128, 2>>}

\* A comparison of the addresses alone, without the bit length.
LessAddressOnly(a, b) == a[2] < b[2]

\* netip.Addr.Less: by bit length first, then by address.
Less(a, b) == a[1] < b[1] \/ (a[1] = b[1] /\ a[2] < b[2])

Swap(s, i, j) == [s EXCEPT ![i] = s[j], ![j] = s[i]]

\* The inner loop of the insertion sort: element j moves left while it is
\* less than the one before it.
RECURSIVE SiftLeft(_, _)
SiftLeft(s, j) ==
    IF j > 1 /\ Less(s[j], s[j - 1])
    THEN SiftLeft(Swap(s, j, j - 1), j - 1)
    ELSE s

\* Lines 76-78: sort.Slice with clients[i].IP.Less(clients[j].IP); for a
\* slice of at most 12 elements sort.Slice is this insertion sort.
RECURSIVE InsertionSortFrom(_, _)
InsertionSortFrom(s, i) ==
    IF i > Len(s) THEN s
    ELSE InsertionSortFrom(SiftLeft(s, i), i + 1)

SortSlice(s) == InsertionSortFrom(s, 2)

\* The orders in which ListClients may return the clients of a table.
Orders(table) ==
    {s \in [1..Cardinality(table) -> table] :
        \A i, j \in DOMAIN s : i # j => s[i] # s[j]}

\* The tables of at most MaxClients clients, a client per IP address.
Tables == {t \in SUBSET Addrs : Cardinality(t) <= MaxClients}

\* What the metrics registry answers for a client: the lookup fails, the
\* metric cannot be written out, or the counter's value, a float64 given
\* here in tenths.
MetricResults ==
    {[kind |-> "lookup error", value |-> 0], [kind |-> "write error", value |-> 0]}
        \cup [kind : {"ok"}, value : {15, 29}]

\* int64(dm.Counter.GetValue()): the float64 truncated.
Int64(tenths) == tenths \div 10

FreshClient == [QueryCount |-> 0, IncludeQueryCount |-> FALSE]

NoLookups == [a \in {} |-> [kind |-> "", value |-> 0]]

IdleList ==
    [pc |-> "idle", clients |-> <<>>, stats |-> FALSE, lookups |-> NoLookups,
     status |-> 0, resp |-> <<>>]

\* The state after construction, with no request in flight.
ClientsStart(table, stats) ==
    /\ ciTable = table
    /\ clientRec = [a \in Addrs |-> FreshClient]
    /\ metricsQueryStats = stats
    /\ lc = IdleList

\* A loop body that zeroes the query count when the lookup fails.
EnrichedZeroOnError(rec, res) ==
    IF res.kind = "ok"
    THEN [rec EXCEPT !.IncludeQueryCount = TRUE, !.QueryCount = Int64(res.value)]
    ELSE [rec EXCEPT !.IncludeQueryCount = TRUE, !.QueryCount = 0]

\* Lines 81-94: the loop body for one client: set IncludeQueryCount, look
\* the metric up, and on success write it out and store the count.
Enriched(rec, res) ==
    IF res.kind = "ok"
    THEN [rec EXCEPT !.IncludeQueryCount = TRUE, !.QueryCount = Int64(res.value)]
    ELSE [rec EXCEPT !.IncludeQueryCount = TRUE]

\* Lines 75-79: ListClients, sort.Slice, and the load of the flag.
ListSort ==
    /\ lc.pc = "idle"
    /\ \E order \in Orders(ciTable) :
        lc' = [lc EXCEPT !.pc = "enrich", !.clients = SortSlice(order),
                         !.stats = metricsQueryStats]
    /\ UNCHANGED <<notClientVars, ciTable, clientRec, metricsQueryStats>>

\* Lines 79-96: with the flag set, the loop over the sorted clients.
ListEnrich ==
    /\ lc.pc = "enrich"
    /\ IF lc.stats
       THEN \E res \in [{lc.clients[i] : i \in DOMAIN lc.clients} -> MetricResults] :
              /\ clientRec' = [a \in Addrs |->
                                 IF a \in DOMAIN res
                                 THEN Enriched(clientRec[a], res[a])
                                 ELSE clientRec[a]]
              /\ lc' = [lc EXCEPT !.pc = "encode", !.lookups = res]
       ELSE /\ clientRec' = clientRec
            /\ lc' = [lc EXCEPT !.pc = "encode"]
    /\ UNCHANGED <<notClientVars, ciTable, metricsQueryStats>>

\* Lines 98-101: the clients are encoded into the response, which is a
\* 200, or a 500 when the encoder fails.
ListEncode ==
    /\ lc.pc = "encode"
    /\ \E encoded \in BOOLEAN :
        lc' = [lc EXCEPT
                 !.pc = "done",
                 !.lookups = NoLookups,
                 !.status = IF encoded THEN StatusOK ELSE StatusInternalServerError,
                 !.resp = IF encoded
                          THEN [i \in DOMAIN lc.clients |->
                                  [IP |-> lc.clients[i],
                                   QueryCount |-> clientRec[lc.clients[i]].QueryCount,
                                   IncludeQueryCount |->
                                      clientRec[lc.clients[i]].IncludeQueryCount]]
                          ELSE <<>>]
    /\ UNCHANGED <<notClientVars, ciTable, clientRec, metricsQueryStats>>

\* The response has been delivered; the connection serves the next request.
ListEnd ==
    /\ lc.pc = "done"
    /\ lc' = IdleList
    /\ UNCHANGED <<notClientVars, ciTable, clientRec, metricsQueryStats>>

\* The table makes the client records anew.
TableRefresh ==
    /\ lc.pc = "idle"
    /\ clientRec # [a \in Addrs |-> FreshClient]
    /\ clientRec' = [a \in Addrs |-> FreshClient]
    /\ UNCHANGED <<notClientVars, ciTable, metricsQueryStats, lc>>

\* The daemon's configuration turns the query statistics on or off.
SetMetricsQueryStats ==
    /\ metricsQueryStats' = ~metricsQueryStats
    /\ UNCHANGED <<notClientVars, ciTable, clientRec, lc>>

\* The state after construction, with no request in flight.
ReloadStart(c) ==
    /\ cfg = c
    /\ mu = MuFree
    /\ reloadSig = 0
    /\ daemon = "idle"
    /\ reloadDoneCh = 0
    /\ rl = [r \in ReloadReqs |-> IdleReload]
    /\ served = [r \in ReloadReqs |-> "none"]

\* The first three handler groups after construction.
CoreStart ==
    /\ ReloadStart([Listener |-> BaseListeners, Service |-> [LogLevel |-> "info"]])
    /\ DeactStart("", defaultDeactivationPin)
    /\ LogsStart

\* The /clients handler after construction, with an empty client table.
ClientsIdle == ClientsStart({}, FALSE)

\* The control server before start, with the socket path free.
ServerIdle == ServerStart("absent", FALSE)

\* The other handler groups after construction, with no request in flight.
OthersStart ==
    /\ StartedStart
    /\ IfaceStart(FALSE)
    /\ ServerIdle
    /\ ViewStart
    /\ ClientsIdle

InitReload ==
    /\ \E c \in Configs : ReloadStart(c)
    /\ DeactStart("", defaultDeactivationPin)
    /\ LogsStart
    /\ OthersStart

NextReload ==
    \/ \E r \in ReloadReqs :
        \/ ReloadBegin(r)
        \/ ReloadLockSnapshot(r)
        \/ ReloadCopyListeners(r)
        \/ ReloadSnapshot(r)
        \/ ReloadSignal(r)
        \/ ReloadWaitDone(r)
        \/ ReloadWaitTimeout(r)
        \/ ReloadLockVerify(r)
        \/ ReloadVerify(r)
        \/ ReloadEnd(r)
    \/ ReloadTick
    \/ DaemonTakeSignal
    \/ DaemonLock
    \/ DaemonInstall
    \/ DaemonSignalDone

SpecReload == InitReload /\ [][NextReload]_vars

\* The /reload handlers and the daemon, with served recording for every
\* waiting request what the daemon has done since the request's signal.
NextReloadRecorded ==
    \/ \E r \in ReloadReqs :
        \/ ReloadBegin(r)
        \/ ReloadLockSnapshot(r)
        \/ ReloadCopyListeners(r)
        \/ ReloadSnapshot(r)
        \/ ReloadSignal(r)
        \/ ReloadWaitDone(r)
        \/ ReloadWaitTimeout(r)
        \/ ReloadLockVerify(r)
        \/ ReloadVerify(r)
        \/ ReloadEnd(r)
    \/ ReloadTick
    \/ DaemonTakeSignalRecorded
    \/ DaemonLock
    \/ DaemonInstall
    \/ DaemonSignalDoneRecorded

SpecReloadRecorded == InitReload /\ [][NextReloadRecorded]_vars

InitDeactivation ==
    /\ \E uid \in {"", "uid"}, pin \in Pins \cup {defaultDeactivationPin} :
          DeactStart(uid, pin)
    /\ ReloadStart([Listener |-> BaseListeners, Service |-> [LogLevel |-> "info"]])
    /\ LogsStart
    /\ OthersStart

NextDeactivation ==
    \E r \in DeactReqs :
        \/ DeactBegin(r)
        \/ DeactFetch(r)
        \/ DeactPinNotSet(r)
        \/ DeactDecode(r)
        \/ DeactCompare(r)
        \/ DeactEnd(r)

SpecDeactivation == InitDeactivation /\ [][NextDeactivation]_vars

InitLogs ==
    /\ LogsStart
    /\ ReloadStart([Listener |-> BaseListeners, Service |-> [LogLevel |-> "info"]])
    /\ DeactStart("", defaultDeactivationPin)
    /\ OthersStart

NextLogs ==
    \/ \E r \in LogReqs :
        \/ LogsThrottle(r)
        \/ LogsRead(r)
        \/ LogsSend(r)
        \/ LogsStampBegin(r)
        \/ LogsStampEnd(r)
        \/ LogsEnd(r)
    \/ LogsTick

\* Concurrent /logs/send requests.
SpecLogs == InitLogs /\ [][NextLogs]_vars

\* At most one /logs/send request is in flight.
OneAtATime == Cardinality({r \in LogReqs : lg[r].pc # "idle"}) <= 1

NextLogsSeq == NextLogs /\ OneAtATime'

\* Sequential requests: a request arrives after the one before was answered.
SpecLogsSeq == InitLogs /\ [][NextLogsSeq]_vars

\* Log view requests and, one after another, log ship requests.
NextLogOutcomes ==
    \/ NextLogsSeq
    \/ LogsView
    \/ LogsViewEnd

SpecLogOutcomes == InitLogs /\ [][NextLogOutcomes]_vars

InitSignals ==
    /\ StartedStart
    /\ \E i \in BOOLEAN : IfaceStart(i)
    /\ CoreStart
    /\ ServerIdle
    /\ ViewStart
    /\ ClientsIdle

NextStarted ==
    \/ \E r \in StartedReqs :
        \/ StartedBegin(r)
        \/ StartedOK(r)
        \/ StartedTimeout(r)
        \/ StartedEnd(r)
    \/ StartedTick

NextIface ==
    \E r \in IfaceReqs :
        \/ IfaceBegin(r)
        \/ IfaceRecv(r)
        \/ IfaceEnd(r)

NextSignals ==
    \/ NextStarted
    \/ NextIface
    \/ DaemonStarted
    \/ DaemonSetDns

\* The /started and /iface handlers with the daemon's two one-shot signals.
SpecSignals == InitSignals /\ [][NextSignals]_vars

\* The same with the scheduling of goroutines and timers: a handler that can
\* take a step does, and time passes.  Nothing makes the daemon fire a
\* signal.
SpecSignalsFair ==
    /\ SpecSignals
    /\ WF_vars(StartedTick)
    /\ \A r \in StartedReqs :
          /\ WF_vars(StartedBegin(r)) /\ WF_vars(StartedOK(r))
          /\ WF_vars(StartedTimeout(r)) /\ WF_vars(StartedEnd(r))
    /\ \A r \in IfaceReqs :
          WF_vars(IfaceBegin(r)) /\ WF_vars(IfaceRecv(r)) /\ WF_vars(IfaceEnd(r))

InitServer ==
    /\ \E path \in {"absent", "stale", "other"} : ServerStart(path, path = "other")
    /\ StartedStart
    /\ IfaceStart(FALSE)
    /\ CoreStart
    /\ ViewStart
    /\ ClientsIdle

NextServer ==
    \/ StartRemove
    \/ StartListen
    \/ StartServe
    \/ \E c \in Conns : ConnServe(c) \/ HandlerReturn(c)
    \/ StopRemove
    \/ StopShutdown
    \/ StopDrained
    \/ StopDeadline
    \/ StopTick
    \/ OtherBind
    \/ OtherExit

\* The control server's start and stop with its connections.
SpecServer == InitServer /\ [][NextServer]_vars

InitClients ==
    /\ \E table \in Tables, stats \in BOOLEAN : ClientsStart(table, stats)
    /\ CoreStart
    /\ StartedStart
    /\ IfaceStart(FALSE)
    /\ ServerIdle
    /\ ViewStart

NextClients ==
    \/ ListSort
    \/ ListEnrich
    \/ ListEncode
    \/ ListEnd
    \/ TableRefresh
    \/ SetMetricsQueryStats

\* The /clients handler with the metrics registry.
SpecClients == InitClients /\ [][NextClients]_vars

(***************************************************************************)
(* Properties of the /reload handler.                                      *)
(***************************************************************************)
\* The snapshot and the live listener map differ: a name in one and not in
\* the other, or a common name with another IP or port.
ListenersDiffer(snap, live) ==
    \/ DOMAIN snap # DOMAIN live
    \/ \E k \in DOMAIN snap \cap DOMAIN live :
          snap[k].IP # live[k].IP \/ snap[k].Port # live[k].Port

\* The verify step of request r: it holds the lock, compares and answers.
VerifyStep(r) == rl[r].pc = "verify" /\ rl'[r].pc = "done"

\* C1: a reload whose completion signal arrived answers 201 whenever the
\* live listener map differs from the snapshot (an IP, a port, or a listener
\* present in only one of the two), whatever the service configuration.
C1_ListenerDifferenceIs201 ==
    [][\A r \in ReloadReqs :
        (VerifyStep(r) /\ ListenersDiffer(rl[r].listeners, cfg.Listener))
            => rl'[r].status = StatusCreated]_vars

\* C2: a reload whose completion signal arrived answers 200 exactly when the
\* live listener map equals the snapshot and the live service configuration
\* equals the snapshotted one.
C2_UnchangedIffOK ==
    [][\A r \in ReloadReqs :
        VerifyStep(r) =>
            (rl'[r].status = StatusOK <=>
                (/\ ~ListenersDiffer(rl[r].listeners, cfg.Listener)
                 /\ rl[r].oldSvc = cfg.Service))]_vars

\* C3: a reload whose completion signal arrived, whose live listener map is
\* identical to the snapshot and whose live service configuration is not
\* equal to the snapshotted one, answers 201.
C3_ServiceChangeIs201 ==
    [][\A r \in ReloadReqs :
        (/\ VerifyStep(r)
         /\ ~ListenersDiffer(rl[r].listeners, cfg.Listener)
         /\ rl[r].oldSvc # cfg.Service)
            => rl'[r].status = StatusCreated]_vars

\* C3's case: a request answered 201 by the service check, its listeners
\* identical to the live ones and its service snapshot unlike the live one.
C3_Witness ==
    \E r \in ReloadReqs :
        /\ rl[r].pc = "done"
        /\ rl[r].status = StatusCreated
        /\ rl[r].ret = "service changed"
        /\ ~ListenersDiffer(rl[r].listeners, cfg.Listener)
        /\ rl[r].oldSvc # cfg.Service

TimedOut(r) ==
    rl[r].pc = "done" /\ rl[r].ret = "timeout waiting for ctrld reload"

\* C4: a handler that waits leaves the wait only by taking a completion
\* signal or, once 5 seconds have elapsed and never before, by answering 500
\* with the timeout message; time does not pass beyond the bound while it
\* waits; the timeout answer takes no lock, runs no verify step and leaves
\* the daemon's reload, the signals and the configuration as they are.
C4_TimeoutAtBound ==
    [][\A r \in ReloadReqs :
        /\ (rl[r].pc = "wait" /\ rl'[r] # rl[r]) =>
              \/ /\ rl'[r].pc = "wait"
                 /\ rl'[r].waited = rl[r].waited + 1
                 /\ rl'[r].waited <= ReloadWaitSeconds
              \/ /\ rl'[r].pc = "lock2"
                 /\ reloadDoneCh > 0
                 /\ reloadDoneCh' = reloadDoneCh - 1
              \/ /\ TimedOut(r)'
                 /\ rl[r].waited >= ReloadWaitSeconds
        /\ (~TimedOut(r) /\ TimedOut(r)') =>
              /\ rl[r].pc = "wait"
              /\ rl[r].waited >= ReloadWaitSeconds
              /\ rl'[r].status = StatusInternalServerError
              /\ mu # MuReq(r)
              /\ UNCHANGED <<cfg, mu, reloadSig, daemon, reloadDoneCh>>]_vars

\* C4's case: a request has answered 500 for the timeout and the daemon's
\* reload has completed after it.
C4_Witness ==
    \E r \in ReloadReqs :
        /\ TimedOut(r)
        /\ rl[r].status = StatusInternalServerError
        /\ rl[r].waited = ReloadWaitSeconds
        /\ daemon = "idle"
        /\ reloadDoneCh > 0

SignalFailed(r) == rl[r].ret = "signal error"

\* C5: when the reload signal cannot be delivered the handler answers 500
\* and returns in that very step: it goes from the signal step to the end,
\* never waits, takes no completion signal, runs no verify step, and does
\* not hold the lock.
C5_SignalFailureAborts ==
    [][\A r \in ReloadReqs :
        /\ (~SignalFailed(r) /\ SignalFailed(r)') =>
              /\ rl[r].pc = "signal"
              /\ rl'[r].pc = "done"
              /\ rl'[r].status = StatusInternalServerError
              /\ mu' # MuReq(r)
              /\ UNCHANGED <<cfg, mu, reloadDoneCh>>
        /\ (SignalFailed(r) /\ rl'[r] # rl[r]) => rl'[r].pc = "idle"]_vars

\* C5's case: a request ended by the signal failure, with 500.
C5_Witness ==
    \E r \in ReloadReqs :
        /\ rl[r].pc = "done"
        /\ SignalFailed(r)
        /\ rl[r].status = StatusInternalServerError
        /\ mu = MuFree

(***************************************************************************)
(* Properties of the /deactivation handler.                                *)
(***************************************************************************)
\* The status the decision table gives for a body and a cached PIN.
TableStatus(body, cached) ==
    IF cached = defaultDeactivationPin THEN StatusOK
    ELSE IF ~body.ok THEN StatusPreconditionFailed
    ELSE IF body.Pin = cached THEN StatusOK
    ELSE IF body.Pin = defaultDeactivationPin THEN StatusBadRequest
    ELSE StatusForbidden

\* Request r is answered in this step.
DeactReturn(r) == da[r].pc # "done" /\ da'[r].pc = "done"

\* C6: every deactivation request is answered by the decision table: no
\* device identifier: 200 at once, with no refresh; otherwise, with P the
\* cached PIN after the request's refresh step: P the sentinel: 200,
\* whatever the body; P a real PIN: undecodable body 412, submitted P 200,
\* submitted sentinel 400, anything else 403.  P is the cached PIN as the
\* handler loads it after its refresh: at the unset check, or at the
\* comparison.
C6_DecisionTable ==
    [][\A r \in DeactReqs :
        DeactReturn(r) =>
            IF cdUID = ""
            THEN da[r].pc = "idle" /\ da'[r].status = StatusOK
            ELSE \E P \in (IF da[r].pc = "notset" THEN {cdDeactivationPin}
                           ELSE IF da[r].pc = "decode" THEN {da[r].checked}
                           ELSE {da[r].checked, cdDeactivationPin}) :
                    \E b \in (IF da[r].pc = "compare" THEN {da[r].body}
                              ELSE IF da[r].pc = "decode" THEN {Malformed}
                              ELSE Bodies) :
                        da'[r].status = TableStatus(b, P)]_vars

FetchStep(r) == da[r].pc = "fetch" /\ da'[r].pc # "fetch"

\* C7: with a device identifier set, a request's first step is the fetch;
\* the fetch step stores the returned PIN, or the sentinel when the config
\* carries none, and leaves the cached PIN as it was when the fetch fails;
\* it writes no status and goes on to the unset check; nothing else writes
\* the cached PIN.
C7_PinRefresh ==
    [][/\ \A r \in DeactReqs :
            /\ (da[r].pc = "idle" /\ da'[r].pc # "idle" /\ cdUID # "") =>
                  da'[r].pc = "fetch" /\ da'[r].status = 0
            /\ FetchStep(r) =>
                  /\ da'[r].pc = "notset"
                  /\ da'[r].status = 0
                  /\ da'[r].rc \in FetchResults
                  /\ cdDeactivationPin' =
                        IF ~da'[r].rc.rc THEN cdDeactivationPin
                        ELSE IF da'[r].rc.hasPin THEN da'[r].rc.pin
                        ELSE defaultDeactivationPin
       /\ cdDeactivationPin' # cdDeactivationPin =>
            \E r \in DeactReqs : FetchStep(r)]_vars

\* C7's case: a request's fetch has failed, the PIN cached before is still
\* cached, and the request goes on to the unset check with it.
C7_Witness ==
    \E r \in DeactReqs :
        /\ da[r].pc = "notset"
        /\ ~da[r].rc.rc
        /\ da[r].status = 0
        /\ cdDeactivationPin \in Pins

(***************************************************************************)
(* Properties of the /logs/send handler.                                   *)
(***************************************************************************)
\* Request r returns in this step.
LogsReturn(r) == lg[r].pc # "done" /\ lg'[r].pc = "done"

\* Request r arrives and makes its throttle check in this step.
LogsArrive(r) == lg[r].pc = "idle" /\ lg'[r].pc # "idle"

\* The last attempt that transmitted returned less than an interval ago.
RecentlyShipped ==
    shipped # <<>> /\ now - shipped[1].at < logSentInterval

\* C8 as stated: every attempt that passes the throttle check has updated
\* the throttle timestamp when the handler returns, whatever its outcome
\* (transmitted, transmission failed, log read error, empty log).
C8_EveryAttemptStamps ==
    [][\A r \in LogReqs :
        (LogsReturn(r) /\ lg'[r].status # StatusServiceUnavailable)
            => internalLogSent' = now]_vars

\* C8 amended: every attempt that reaches the transmission step has updated
\* the throttle timestamp when the handler returns, whether the transmission
\* succeeded (200) or failed (500), so that a request whose throttle check
\* reads the timestamp within the interval after it, with no write in
\* progress, is answered 503; an attempt that ends with a read error (400)
\* or empty content (301) returns without touching the timestamp.
C8_TransmissionStamps ==
    [][\A r \in LogReqs :
        /\ (LogsReturn(r) /\ lg'[r].status \in {StatusOK, StatusInternalServerError})
              => /\ lastSent # <<>>
                 /\ internalLogSent' = now
        /\ (LogsReturn(r) /\ lg'[r].status \in {StatusBadRequest, StatusMovedPermanently})
              => UNCHANGED <<internalLogSent, lastSent>>
        /\ (LogsArrive(r) /\ RecentlyShipped /\ ~WriteInProgress(r))
              => /\ lg'[r].pc = "done"
                 /\ lg'[r].status = StatusServiceUnavailable]_vars

\* C8's case: a request whose transmission failed has returned 500 and the
\* timestamp is the time of its return.
C8_Witness ==
    \E r \in LogReqs :
        /\ lg[r].pc = "done"
        /\ lg[r].status = StatusInternalServerError
        /\ shipped # <<>>
        /\ shipped[1].status = StatusInternalServerError
        /\ shipped[1].at = now
        /\ internalLogSent = now

\* C9 (sequential requests): a request that arrives less than an interval
\* after a request that transmitted has returned, whether that transmission
\* succeeded or failed, is answered 503 at once, without reading the log or
\* contacting the remote endpoint; any other request goes on to read the log.
C9_ThrottleSequence ==
    [][\A r \in LogReqs :
        LogsArrive(r) =>
            IF RecentlyShipped
            THEN /\ lg'[r].pc = "done"
                 /\ lg'[r].status = StatusServiceUnavailable
                 /\ lastSent' = lastSent
            ELSE lg'[r].pc = "read"]_vars

\* C9's case: the transmission before failed (500), and the request that
\* followed within the interval was answered 503.
C9_Witness ==
    \E r \in LogReqs :
        /\ lg[r].pc = "done"
        /\ lg[r].status = StatusServiceUnavailable
        /\ shipped # <<>>
        /\ shipped[1].status = StatusInternalServerError
        /\ now - shipped[1].at < logSentInterval
        /\ now > shipped[1].at

\* C10: under any interleaving of concurrent requests, a request transmits
\* to the remote endpoint only if no other transmission was made within the
\* throttle interval before it.
C10_OneTransmissionPerInterval ==
    [][\A r \in LogReqs :
        (lg[r].pc = "send" /\ lg'[r].pc = "stamp")
            => (lastSent = <<>> \/ now - lastSent[1] >= logSentInterval)]_vars

(***************************************************************************)
(* Properties of the blocking handlers.                                    *)
(***************************************************************************)
\* C11: every request to a blocking handler is answered, even when the
\* daemon's signal never fires: a /started request that waits is answered
\* and an /iface request that waits is answered.
C11_BoundedBlocking ==
    /\ \A r \in StartedReqs : (st[r].pc = "wait") ~> (st[r].pc = "done")
    /\ \A r \in IfaceReqs : (ifc[r].pc = "wait") ~> (ifc[r].pc = "done")

\* The /started part of C11 alone.
StartedAnswers ==
    \A r \in StartedReqs : (st[r].pc = "wait") ~> (st[r].pc = "done")

\* C12: a /started request makes one wait and never a second one; it is
\* answered 200 when the startup signal had fired before it arrived or fires
\* while it waits, and every request that arrives after the signal is
\* answered 200; it is answered 408 only from the wait, with the signal not
\* fired and 10 seconds elapsed, never before; no other status is written.
C12_Readiness ==
    [][/\ onStartedDone => onStartedDone'
       /\ \A r \in StartedReqs :
            /\ onStartedDone' => st'[r].pc # "wait"
            /\ (st[r].pc = "idle" /\ st'[r] # st[r]) =>
                  /\ st'[r].pc = IF onStartedDone THEN "ready" ELSE "wait"
                  /\ st'[r].waited = 0
                  /\ st'[r].status = 0
            /\ (st[r].pc = "wait" /\ st'[r] # st[r]) =>
                  \/ /\ st'[r].pc = "wait"
                     /\ st'[r].waited = st[r].waited + 1
                     /\ st'[r].waited <= StartedWaitSeconds
                     /\ ~onStartedDone'
                  \/ /\ st'[r].pc = "ready"
                     /\ ~onStartedDone /\ onStartedDone'
                  \/ /\ st'[r].pc = "done"
                     /\ st'[r].status = StatusRequestTimeout
                     /\ st[r].waited >= StartedWaitSeconds
                     /\ ~onStartedDone
            /\ (st[r].pc = "ready" /\ st'[r] # st[r]) =>
                  /\ onStartedDone
                  /\ st'[r].pc = "done"
                  /\ st'[r].status = StatusOK
            /\ (st[r].pc = "done" /\ st'[r] # st[r]) => st'[r].pc = "idle"]_vars

\* C12's case: the signal fired while the request was waiting, before the
\* bound, and the request was answered 200.
C12_Witness ==
    \E r \in StartedReqs :
        /\ st[r].pc = "done"
        /\ st[r].status = StatusOK
        /\ st[r].waited > 0
        /\ st[r].waited < StartedWaitSeconds
        /\ onStartedDone

\* A request has been answered 408 at the bound.
StartedTimedOut ==
    \E r \in StartedReqs :
        /\ st[r].pc = "done"
        /\ st[r].status = StatusRequestTimeout
        /\ st[r].waited = StartedWaitSeconds

\* C18: in an interactive session an /iface request is answered 400 at once,
\* with no wait; as a service it waits until the DNS-binding signal has
\* fired and is then answered with the interface name and 200 when the
\* binding succeeded, and 400 when it failed; the name is never in a
\* response in an interactive session or before the signal has fired.
C18_Interface ==
    [][\A r \in IfaceReqs :
        /\ (ifc[r].pc = "idle" /\ ifc'[r] # ifc[r]) =>
              IF interactive
              THEN /\ ifc'[r].pc = "done"
                   /\ ifc'[r].status = StatusBadRequest
                   /\ ifc'[r].body = ""
              ELSE /\ ifc'[r].pc = "wait"
                   /\ ifc'[r].status = 0
                   /\ ifc'[r].body = ""
        /\ (ifc[r].pc = "wait" /\ ifc'[r] # ifc[r]) =>
              /\ csSetDnsDone
              /\ ifc'[r].pc = "done"
              /\ IF csSetDnsOk
                 THEN ifc'[r].status = StatusOK /\ ifc'[r].body = iface
                 ELSE ifc'[r].status = StatusBadRequest /\ ifc'[r].body = ""
        /\ ifc'[r].body = iface => (~interactive /\ csSetDnsDone)]_vars

\* C18's case: as a service, the binding succeeded and a request that
\* waited for the signal was answered with the interface name.
C18_Witness ==
    \E r \in IfaceReqs :
        /\ ifc[r].pc = "done"
        /\ ifc[r].status = StatusOK
        /\ ifc[r].body = iface
        /\ ~interactive
        /\ csSetDnsDone /\ csSetDnsOk

(***************************************************************************)
(* Properties of the control server.                                       *)
(***************************************************************************)
\* start makes a step.
StartStep == cs' # cs /\ sd' = sd

\* C13: start first removes the file at the socket path and then binds; a
\* bind made while another live listener is bound at the path fails with
\* the address-in-use error; and when the bind fails start returns the
\* error and the serving worker is never started; the worker serves a
\* listener that was bound.
C13_StartBinds ==
    [][/\ (StartStep /\ cs.pc = "new") =>
              sockPath' = "absent" /\ cs'.pc = "listen"
       /\ (StartStep /\ cs.pc = "listen" /\ otherListener) =>
              cs'.pc = "failed" /\ cs'.err = "address already in use"
       /\ (StartStep /\ cs.pc = "listen" /\ sockPath # "absent") =>
              cs'.pc = "failed" /\ cs'.err = "address already in use"
       /\ cs'.pc = "failed" => (cs'.err # "" /\ ~cs'.serving /\ ~cs'.listening)
       /\ cs.pc = "failed" => cs' = cs
       /\ (~cs.serving /\ cs'.serving) => (cs.listening /\ cs.err = "")]_vars

\* The parts of C13 that do not speak of another live listener.
StartFailureIsFatal ==
    [][/\ (StartStep /\ cs.pc = "new") =>
              sockPath' = "absent" /\ cs'.pc = "listen"
       /\ (StartStep /\ cs.pc = "listen" /\ sockPath # "absent") =>
              cs'.pc = "failed" /\ cs'.err = "address already in use"
       /\ cs'.pc = "failed" => (cs'.err # "" /\ ~cs'.serving /\ ~cs'.listening)
       /\ cs.pc = "failed" => cs' = cs
       /\ (~cs.serving /\ cs'.serving) => (cs.listening /\ cs.err = "")]_vars

\* start has returned an error for a name taken between the removal and the
\* bind.
StartFailedInUse ==
    cs.pc = "failed" /\ cs.err = "address already in use" /\ otherListener

\* C14: stop first removes the socket path file; once the shutdown has
\* begun no new connection is accepted; the wait for the handlers in flight
\* lasts at most 2 seconds; and when stop has returned no handler of the
\* server is running.
C14_StopDrains ==
    [][/\ (sd.pc = "idle" /\ sd' # sd) =>
              sockPath' = "absent" /\ sd'.pc = "shutdown"
       /\ sd.pc \in {"drain", "stopped"} =>
              \A c \in Conns : hd'[c] = "active" => hd[c] = "active"
       /\ sd'.pc = "drain" => sd'.waited <= StopWaitSeconds
       /\ (sd.pc = "drain" /\ sd'.pc = "stopped") =>
              \/ \A c \in Conns : hd[c] # "active"
              \/ sd.waited >= StopWaitSeconds
       /\ sd'.pc = "stopped" => \A c \in Conns : hd'[c] # "active"]_vars

\* The parts of C14 before the forced close.
StopWaitsAtMostBound ==
    [][/\ (sd.pc = "idle" /\ sd' # sd) =>
              sockPath' = "absent" /\ sd'.pc = "shutdown"
       /\ sd.pc \in {"drain", "stopped"} =>
              \A c \in Conns : hd'[c] = "active" => hd[c] = "active"
       /\ sd'.pc = "drain" => sd'.waited <= StopWaitSeconds
       /\ (sd.pc = "drain" /\ sd'.pc = "stopped") =>
              \/ \A c \in Conns : hd[c] # "active"
              \/ sd.waited >= StopWaitSeconds]_vars

(***************************************************************************)
(* Properties of the log handlers' outcomes.                               *)
(***************************************************************************)
\* What a handler answers for a read of the log bundle, 0 meaning that it
\* goes on with the content.
OutcomeOfRead(rd, status) ==
    /\ rd.err => status = StatusBadRequest
    /\ (~rd.err /\ rd.data = <<>>) => status = StatusMovedPermanently
    /\ (~rd.err /\ rd.data # <<>>) => status = 0

\* C15: log view and an unthrottled log ship answer a read error with 400,
\* whether or not there is data, and readable empty content with 301; log
\* view answers 200 only for readable content that is not empty, with that
\* content; log ship reaches the transmission with such content only and
\* there answers 200, or 500 when the transmission fails, and in both cases
\* its body carries the size of the content, and the error message after a
\* failure.
C15_LogOutcomes ==
    [][/\ \A r \in LogReqs :
            /\ (lg[r].pc = "read" /\ lg'[r] # lg[r]) =>
                  /\ OutcomeOfRead(lg'[r].rd, lg'[r].status)
                  /\ lg'[r].pc = IF lg'[r].status = 0 THEN "send" ELSE "done"
            /\ (lg[r].pc = "send" /\ lg'[r] # lg[r]) =>
                  /\ ~lg[r].rd.err /\ Len(lg[r].rd.data) > 0
                  /\ lg'[r].status \in {StatusOK, StatusInternalServerError}
                  /\ lg'[r].resp.Size = Len(lg[r].rd.data)
                  /\ lg'[r].resp.Error # "" <=>
                        lg'[r].status = StatusInternalServerError
            /\ (lg[r].pc \in {"stamp", "stamping"} /\ lg'[r] # lg[r]) =>
                  /\ lg'[r].status = lg[r].status
                  /\ lg'[r].resp = lg[r].resp
       /\ (lv.pc = "idle" /\ lv' # lv) =>
            /\ lv'.pc = "done"
            /\ \/ OutcomeOfRead(lv'.rd, lv'.status)
               \/ /\ ~lv'.rd.err /\ lv'.rd.data # <<>>
                  /\ lv'.status \in {StatusOK, StatusInternalServerError}
            /\ lv'.status # 0
            /\ lv'.status = StatusOK => lv'.body = lv'.rd.data]_vars

\* C15's case: a log ship whose transmission failed has answered 500 with
\* the size of the content and the error message in its body.
C15_Witness ==
    \E r \in LogReqs :
        /\ lg[r].pc = "done"
        /\ lg[r].status = StatusInternalServerError
        /\ lg[r].resp.Size = Len(lg[r].rd.data)
        /\ lg[r].resp.Size > 0
        /\ lg[r].resp.Error # ""

\* A read error with no data has been answered 400 by log view.
ViewReadErrorNoData ==
    lv.pc = "done" /\ lv.rd.err /\ lv.rd.data = <<>> /\ lv.status = StatusBadRequest

(***************************************************************************)
(* Properties of the /clients handler.                                     *)
(***************************************************************************)
\* IP address a is not after b: IPv4 before IPv6, then by address.
NotAfter(a, b) == a[1] < b[1] \/ (a[1] = b[1] /\ a[2] <= b[2])

\* A sequence of IP addresses holds each client of the table once, in
\* ascending order.
IsListingOf(ips, table) ==
    /\ Len(ips) = Cardinality(table)
    /\ {ips[i] : i \in DOMAIN ips} = table
    /\ \A i, j \in DOMAIN ips : i < j => NotAfter(ips[i], ips[j])

\* C16: whatever order the table's clients are returned in, the sorted
\* slice, and the response encoded from it, hold exactly the clients of the
\* table, each once, in ascending order of IP address.
C16_ListingSorted ==
    [][/\ (lc.pc = "idle" /\ lc' # lc) => IsListingOf(lc'.clients, ciTable)
       /\ (lc.pc = "enrich" /\ lc' # lc) => lc'.clients = lc.clients
       /\ (lc.pc = "encode" /\ lc'.status = StatusOK) =>
            IsListingOf([i \in DOMAIN lc'.resp |-> lc'.resp[i].IP], ciTable)]_vars

\* C16's case: a listing of two clients or more, an IPv4 one and an IPv6
\* one among them, has been answered.
C16_Witness ==
    /\ lc.pc = "done"
    /\ lc.status = StatusOK
    /\ Len(lc.resp) >= 2
    /\ \E i, j \in DOMAIN lc.resp : lc.resp[i].IP[1] < lc.resp[j].IP[1]

\* The enrichment step of the handler.
EnrichStep == lc.pc = "enrich" /\ lc' # lc

\* C17: with the flag enabled, a client whose metrics lookup fails keeps
\* the query count it had, every client whose lookup succeeds and whose
\* metric is read gets the counter's value as its query count, and the
\* handler goes on to encode all the clients; with the flag disabled no
\* client record is changed; the response carries the records as the
\* enrichment left them; no record of a client outside the listing changes.
C17_BestEffortEnrichment ==
    [][/\ EnrichStep =>
            /\ lc'.pc = "encode" /\ lc'.status = 0 /\ lc'.clients = lc.clients
            /\ IF lc.stats
               THEN \A a \in Addrs :
                      IF a \in ciTable
                      THEN /\ lc'.lookups[a].kind # "ok" =>
                                clientRec'[a].QueryCount = clientRec[a].QueryCount
                           /\ lc'.lookups[a].kind = "ok" =>
                                /\ clientRec'[a].QueryCount =
                                      lc'.lookups[a].value \div 10
                                /\ clientRec'[a].IncludeQueryCount
                      ELSE clientRec'[a] = clientRec[a]
               ELSE clientRec' = clientRec
       /\ (lc.pc # "idle" /\ ~EnrichStep) => clientRec' = clientRec
       /\ (lc.pc = "encode" /\ lc'.status = StatusOK) =>
            \A i \in DOMAIN lc'.resp :
                /\ lc'.resp[i].QueryCount = clientRec[lc'.resp[i].IP].QueryCount
                /\ lc'.resp[i].IncludeQueryCount =
                      clientRec[lc'.resp[i].IP].IncludeQueryCount]_vars

\* C17's case: with the flag enabled the lookup has failed for one client,
\* whose query count is as it was, and succeeded for another, whose query
\* count is set, and the handler goes on to encode both.
C17_Witness ==
    /\ lc.pc = "encode"
    /\ lc.stats
    /\ \E a, b \in ciTable :
          /\ lc.lookups[a].kind = "lookup error"
          /\ clientRec[a].QueryCount = 0
          /\ lc.lookups[b].kind = "ok"
          /\ clientRec[b].QueryCount = lc.lookups[b].value \div 10
          /\ clientRec[b].QueryCount > 0

\* A client whose lookup failed goes into the response with
\* IncludeQueryCount set by this request and no query count.
FlagSetWithoutCount ==
    /\ lc.pc = "encode"
    /\ lc.stats
    /\ \E a \in ciTable :
          /\ lc.lookups[a].kind = "lookup error"
          /\ clientRec[a].IncludeQueryCount
          /\ clientRec[a].QueryCount = 0


(***************************************************************************)
(* Properties of the /reload handler's use of the shared-state lock.       *)
(***************************************************************************)
\* The steps of request r between p.mu.Lock() and p.mu.Unlock(): the
\* snapshot (lines 113-121) and the verify step (lines 134-155).
InLockedStep(r) == rl[r].pc \in {"snapshot", "service", "verify"}

\* Request r holds the lock exactly in its snapshot and verify steps.
HoldsLockOnlyInLockedSteps(r) == mu = MuReq(r) <=> InLockedStep(r)

\* Holding the lock, request r can run its next statement: it waits for
\* nothing.
HolderNotBlocked(r) ==
    mu = MuReq(r) =>
        ENABLED (ReloadCopyListeners(r) \/ ReloadSnapshot(r) \/ ReloadVerify(r))

\* The daemon, wanting the lock, either can take it or finds it held by a
\* request in a locked step or by itself; holding it, it can install.
DaemonNotBlocked ==
    /\ daemon = "reloading" =>
          \/ mu = MuFree /\ ENABLED DaemonLock
          \/ \E r \in ReloadReqs : mu = MuReq(r) /\ InLockedStep(r)
    /\ daemon = "install" => (mu = MuDaemon /\ ENABLED DaemonInstall)

\* C19: the reload handler holds the shared-state lock only in its snapshot
\* and verify steps: not while it sends the reload signal, not while it
\* waits, not after any of its returns (signal failure, timeout, 201, 200).
\* The lock is taken only when free, whoever holds it can run on, so the
\* daemon gets it whatever number of requests are pending; the
\* configuration changes only under the daemon's lock, so the snapshot's
\* listeners and service configuration are those of one configuration, and
\* so are the values the verify step compares.
C19_LockDiscipline ==
    [][/\ \A r \in ReloadReqs :
            /\ HoldsLockOnlyInLockedSteps(r)
            /\ HoldsLockOnlyInLockedSteps(r)'
            /\ HolderNotBlocked(r)
            /\ (mu # MuReq(r) /\ mu' = MuReq(r)) =>
                  (mu = MuFree /\ rl[r].pc \in {"lock1", "lock2"})
            /\ (rl'[r].pc \in {"signal", "wait", "lock2", "done", "idle"}) =>
                  mu' # MuReq(r)
            /\ (rl[r].pc = "service" /\ rl'[r].pc = "signal") =>
                  /\ rl'[r].listeners = CopyListeners(cfg.Listener)
                  /\ rl'[r].oldSvc = cfg.Service
                  /\ mu' = MuFree
            /\ (rl[r].pc = "verify" /\ rl'[r].pc = "done") =>
                  /\ mu = MuReq(r) /\ mu' = MuFree
                  /\ rl'[r].status =
                        VerifyStatus(rl[r].listeners, rl[r].oldSvc, cfg)
       /\ cfg' # cfg => (mu = MuDaemon /\ mu' = MuFree)
       /\ DaemonNotBlocked]_vars

\* C19's case: the daemon holds the lock to install the configuration while
\* a reload request is waiting for the completion signal.
C19_Witness ==
    /\ daemon = "install"
    /\ mu = MuDaemon
    /\ \E r \in ReloadReqs : rl[r].pc = "wait" /\ rl[r].waited > 0

\* A request between its two locked reads while the configuration it reads
\* is not the one the daemon started with: the lock is what keeps the daemon
\* from installing another one before the second read.
SnapshotHalfTaken ==
    \E r \in ReloadReqs :
        /\ rl[r].pc = "service"
        /\ daemon = "reloading"
        /\ mu = MuReq(r)

(***************************************************************************)
(* The completion signal a /reload request takes.                          *)
(***************************************************************************)
\* Request r takes a completion signal (line 128).
TakesCompletion(r) == rl[r].pc = "wait" /\ rl'[r].pc = "lock2"

\* C20: a reload request takes a completion signal only when a reload of
\* the daemon that started after the request had sent its reload signal has
\* completed: never a completion left in the channel by a reload that an
\* earlier, timed-out request had asked for, never that of a reload that was
\* already running when the request sent its signal.
C20_CompletionMatchesRequest ==
    [][\A r \in ReloadReqs :
        TakesCompletion(r) => served[r] = "completed"]_vars

\* A request goes on to verify although the daemon has not taken any reload
\* signal since the request sent its own: the completion it took is a stale
\* one.
StaleCompletionVerified ==
    \E r \in ReloadReqs :
        /\ rl[r].pc \in {"lock2", "verify"}
        /\ reloadSig > 0
        /\ daemon = "idle"

\* The ordinary case: a request takes the completion of the reload it asked
\* for.
OwnCompletionReady ==
    \E r \in ReloadReqs :
        /\ rl[r].pc = "wait"
        /\ served[r] = "completed"
        /\ reloadDoneCh > 0
=============================================================================
